---- MODULE Spec2Model ----
(***************************************************************************)
(* Resume analyzer (src/app.py): skill extraction, scoring, suggestion     *)
(* generation and the upload handler.                                      *)
(*                                                                         *)
(* A Python str is a sequence of characters; a character is a one-letter   *)
(* string, except the bullet U+2022 which is written "BULLET".             *)
(* Scores with a fractional part are integers counting hundredths          *)
(* (skill_score before rounding) or tenths (after round(x, 1)).            *)
(***************************************************************************)
EXTENDS Integers, Sequences, FiniteSets, TLC

\* ------------------------------------------------------------------ bounds
\* word counts are explored within Slack of each length threshold
Slack == 1
\* largest number of pages of an uploaded PDF
MaxPages == 2
\* texts of ordinary length differ from the empty or the complete selection of
\* fragments in at most MaxEdits fragments
MaxEdits == 2

\* ------------------------------------------------------- Python str model
Range(s) == {s[i] : i \in DOMAIN s}

Min(a, b) == IF a < b THEN a ELSE b

\* str.lower() on one character (ASCII letters)
ToLower ==
  ("A" :> "a") @@ ("B" :> "b") @@ ("C" :> "c") @@ ("D" :> "d") @@ ("E" :> "e") @@
  ("F" :> "f") @@ ("G" :> "g") @@ ("H" :> "h") @@ ("I" :> "i") @@ ("J" :> "j") @@
  ("K" :> "k") @@ ("L" :> "l") @@ ("M" :> "m") @@ ("N" :> "n") @@ ("O" :> "o") @@
  ("P" :> "p") @@ ("Q" :> "q") @@ ("R" :> "r") @@ ("S" :> "s") @@ ("T" :> "t") @@
  ("U" :> "u") @@ ("V" :> "v") @@ ("W" :> "w") @@ ("X" :> "x") @@ ("Y" :> "y") @@
  ("Z" :> "z")

LowerChar(c) == IF c \in DOMAIN ToLower THEN ToLower[c] ELSE c

\* text.lower()
lower(t) == [i \in 1..Len(t) |-> LowerChar(t[i])]

\* the `in` operator on strings: sub occurs in t as a contiguous substring
Contains(sub, t) ==
  \/ sub = <<>>
  \/ \E i \in 1..(Len(t) - Len(sub) + 1) :
        /\ t[i] = sub[1]
        /\ \A j \in 2..Len(sub) : t[i + j - 1] = sub[j]

\* characters str.split() and str.strip() treat as whitespace
Whitespace == {" ", "\n", "\t", "\r"}

\* len(text.split()): the number of maximal runs of non-whitespace characters
SplitLen(t) ==
  Cardinality({i \in 1..Len(t) :
     /\ t[i] \notin Whitespace
     /\ (i = 1 \/ t[i - 1] \in Whitespace)})

\* mutant: the text tested without stripping
strip_none(t) == t

\* text.strip(): leading and trailing whitespace removed
strip(t) ==
  LET keep == {i \in 1..Len(t) : t[i] \notin Whitespace}
  IN  IF keep = {} THEN <<>>
      ELSE LET lo == CHOOSE i \in keep : \A k \in keep : i <= k
               hi == CHOOSE i \in keep : \A k \in keep : k <= i
           IN  SubSeq(t, lo, hi)

\* str.endswith(suffix)
EndsWith(t, suffix) ==
  /\ Len(suffix) <= Len(t)
  /\ SubSeq(t, Len(t) - Len(suffix) + 1, Len(t)) = suffix

\* code point order of the characters that occur in skill names
CodeOrder ==
  <<" ", "+", "-", ".", "a", "b", "c", "d", "e", "f", "g", "h", "i", "j", "k",
    "l", "m", "n", "o", "p", "q", "r", "s", "t", "u", "v", "w", "x", "y", "z">>

Ord == [c \in Range(CodeOrder) |-> CHOOSE i \in DOMAIN CodeOrder : CodeOrder[i] = c]

\* a < b on Python strings (lexicographic by code point)
StrLess(a, b) ==
  \E k \in 1..Len(b) :
     /\ k <= Len(a) + 1
     /\ \A j \in 1..(k - 1) : a[j] = b[j]
     /\ (k = Len(a) + 1 \/ Ord[a[k]] < Ord[b[k]])

\* sorted(list(found))
RECURSIVE sorted(_)
sorted(S) ==
  IF S = {} THEN <<>>
  ELSE LET m == CHOOSE x \in S : \A y \in S \ {x} : StrLess(x, y)
       IN  <<m>> \o sorted(S \ {m})

\* ------------------------------------------------------------ vocabulary
KNOWN_SKILLS == <<
  <<"p", "y", "t", "h", "o", "n">>, <<"j", "a", "v", "a">>, <<"c">>, <<"c", "+", "+">>,
  <<"h", "t", "m", "l">>, <<"c", "s", "s">>, <<"j", "a", "v", "a", "s", "c", "r", "i", "p", "t">>, <<"r", "e", "a", "c", "t">>,
  <<"n", "o", "d", "e">>, <<"n", "o", "d", "e", ".", "j", "s">>, <<"f", "l", "a", "s", "k">>, <<"d", "j", "a", "n", "g", "o">>,
  <<"s", "q", "l">>, <<"m", "y", "s", "q", "l">>, <<"p", "o", "s", "t", "g", "r", "e", "s">>, <<"m", "o", "n", "g", "o", "d", "b">>,
  <<"m", "a", "c", "h", "i", "n", "e", " ", "l", "e", "a", "r", "n", "i", "n", "g">>, <<"m", "l">>, <<"d", "e", "e", "p", " ", "l", "e", "a", "r", "n", "i", "n", "g">>,
  <<"d", "a", "t", "a", " ", "a", "n", "a", "l", "y", "s", "i", "s">>, <<"d", "a", "t", "a", " ", "a", "n", "a", "l", "y", "t", "i", "c", "s">>,
  <<"p", "a", "n", "d", "a", "s">>, <<"n", "u", "m", "p", "y">>, <<"s", "c", "i", "k", "i", "t", "-", "l", "e", "a", "r", "n">>,
  <<"g", "i", "t">>, <<"g", "i", "t", "h", "u", "b">>,
  <<"a", "w", "s">>, <<"a", "z", "u", "r", "e">>, <<"g", "c", "p">>, <<"c", "l", "o", "u", "d">>,
  <<"d", "o", "c", "k", "e", "r">>, <<"k", "u", "b", "e", "r", "n", "e", "t", "e", "s">> >>

REQUIRED_SKILLS == <<
  <<"p", "y", "t", "h", "o", "n">>, <<"h", "t", "m", "l">>, <<"c", "s", "s">>, <<"j", "a", "v", "a", "s", "c", "r", "i", "p", "t">>,
  <<"s", "q", "l">>, <<"g", "i", "t">>, <<"g", "i", "t", "h", "u", "b">>, <<"m", "a", "c", "h", "i", "n", "e", " ", "l", "e", "a", "r", "n", "i", "n", "g">> >>

\* ------------------------------------------------------------- the core
extract_skills(text) ==
  LET text_lower == lower(text)
      found == {skill \in Range(KNOWN_SKILLS) : Contains(skill, text_lower)}
  IN  sorted(found)

keywords == <<
  <<"p", "r", "o", "j", "e", "c", "t">>, <<"p", "r", "o", "j", "e", "c", "t", "s">>,
  <<"b", "u", "i", "l", "t">>, <<"c", "r", "e", "a", "t", "e", "d">>, <<"d", "e", "v", "e", "l", "o", "p", "e", "d">>, <<"d", "e", "s", "i", "g", "n", "e", "d">>,
  <<"i", "m", "p", "l", "e", "m", "e", "n", "t", "e", "d">>, <<"e", "n", "g", "i", "n", "e", "e", "r", "e", "d">>, <<"d", "e", "p", "l", "o", "y", "e", "d">>,
  <<"a", "p", "p", "l", "i", "c", "a", "t", "i", "o", "n">>, <<"a", "p", "p">>, <<"s", "y", "s", "t", "e", "m">>, <<"m", "o", "d", "e", "l">> >>

has_projects(text) ==
  LET t == lower(text)
  IN  \E k \in DOMAIN keywords : Contains(keywords[k], t)

\* bullet_chars of formatting_score
bullet_chars == <<"BULLET", "-", "*">>

has_bullets(text) == \E k \in DOMAIN bullet_chars : Contains(<<bullet_chars[k]>>, text)

sections == << <<"e", "d", "u", "c", "a", "t", "i", "o", "n">>, <<"e", "x", "p", "e", "r", "i", "e", "n", "c", "e">>, <<"s", "k", "i", "l", "l", "s">>, <<"p", "r", "o", "j", "e", "c", "t", "s">>, <<"a", "c", "h", "i", "e", "v", "e", "m", "e", "n", "t", "s">> >>

section_score(text) ==
  LET t == lower(text)
  IN  Cardinality({k \in DOMAIN sections : Contains(sections[k], t)})

BULLET_MARKS == 8

\* mutant: a heavier top bonus
section_bonus_heavy(n) ==
  IF n >= 3 THEN 14
  ELSE IF n = 2 THEN 8
  ELSE IF n = 1 THEN 4
  ELSE 2

\* the bonus chain of formatting_score
section_bonus(n) ==
  IF n >= 3 THEN 12
  ELSE IF n = 2 THEN 8
  ELSE IF n = 1 THEN 4
  ELSE 2

\* `score` of formatting_score just before the clamp
format_raw(text) ==
  (IF has_bullets(text) THEN BULLET_MARKS ELSE 0) + section_bonus(section_score(text))

FORMAT_MAX == 20

formatting_score(text) == Min(format_raw(text), FORMAT_MAX)

\* round(x, 1) of a value given in hundredths, result in tenths.  The values
\* rounded here are multiples of 0.25 and exact as floats, so Python rounds
\* a tie to the even tenth.
Round1(h) ==
  LET q == h \div 10
      r == h % 10
  IN  IF r < 5 THEN q
      ELSE IF r > 5 THEN q + 1
      ELSE IF q % 2 = 0 THEN q ELSE q + 1

\* sum(1 for skill in REQUIRED_SKILLS if skill in extracted_skills)
matches(extracted) ==
  Cardinality({k \in DOMAIN REQUIRED_SKILLS : REQUIRED_SKILLS[k] \in Range(extracted)})

\* skill_score before rounding, in hundredths
skill_score_of(extracted) ==
  IF Len(REQUIRED_SKILLS) > 0
  THEN (matches(extracted) * 5000) \div Len(REQUIRED_SKILLS)
  ELSE 0

PROJECT_MARKS == 30
PROJECT_FLOOR == 10

\* mutant: no marks without a project keyword
project_score_zero(text) == IF has_projects(text) THEN PROJECT_MARKS ELSE 0

project_score_of(text) == IF has_projects(text) THEN PROJECT_MARKS ELSE PROJECT_FLOOR

\* mutant: round() without the digits argument
total_score_whole(skill, project, format) ==
  10 * Round1((skill + 100 * project + 100 * format) \div 10)

\* total_score in tenths, from skill_score in hundredths and the two integer parts
total_score_of(skill, project, format) == Round1(skill + 100 * project + 100 * format)

\* (total_score, round(skill_score, 1), project_score, format_score)
calculate_score(extracted, text) ==
  LET skill   == skill_score_of(extracted)
      project == project_score_of(text)
      format  == formatting_score(text)
  IN  <<total_score_of(skill, project, format), Round1(skill), project, format>>

Fixed(kind) == [kind |-> kind, names |-> <<>>]

\* "Try to add ... : " + ", ".join(missing_skills): the names listed, in order
MissingSuggestion(missing) == [kind |-> "missing_skills", names |-> missing]

\* [s for s in required if s not in extracted_skills], order preserved
RECURSIVE NotIn(_, _)
NotIn(required, extracted) ==
  IF required = <<>> THEN <<>>
  ELSE (IF Head(required) \notin Range(extracted) THEN <<Head(required)>> ELSE <<>>)
       \o NotIn(Tail(required), extracted)

\* mutant: the whole vocabulary scanned instead of the required skills
missing_of_known(extracted) == NotIn(KNOWN_SKILLS, extracted)

missing_of(extracted) == NotIn(REQUIRED_SKILLS, extracted)

SHORT_LIMIT == 150
LONG_LIMIT == 700

\* mutant: the hyphen dropped from one of the two bullet lists
suggest_bullet_chars_no_hyphen == <<"BULLET", "*">>

\* bullet_chars of generate_suggestions
suggest_bullet_chars == <<"BULLET", "-", "*">>

When(cond, s) == IF cond THEN <<s>> ELSE <<>>

\* mutant: the short test made non-strict
is_short_le(word_count) == word_count <= SHORT_LIMIT

\* word_count < 150
is_short(word_count) == word_count < SHORT_LIMIT

\* mutant: the long test made non-strict
is_long_ge(word_count) == word_count >= LONG_LIMIT

\* word_count > 700
is_long(word_count) == word_count > LONG_LIMIT

\* mutant: the bullet check appended before the no-skills check
triggered_swapped(text, extracted, missing) ==
  LET word_count == SplitLen(text)
  IN  When(missing # <<>>, MissingSuggestion(missing))
      \o When(~has_projects(text), Fixed("no_projects"))
      \o When(is_short(word_count), Fixed("too_short"))
      \o When(is_long(word_count), Fixed("too_long"))
      \o When(~(\E k \in DOMAIN suggest_bullet_chars :
                  Contains(<<suggest_bullet_chars[k]>>, text)),
              Fixed("no_bullets"))
      \o When(Len(extracted) = 0, Fixed("no_skills"))

\* the list built by the six appends, before the fallback
triggered(text, extracted, missing) ==
  LET word_count == SplitLen(text)
  IN  When(missing # <<>>, MissingSuggestion(missing))
      \o When(~has_projects(text), Fixed("no_projects"))
      \o When(is_short(word_count), Fixed("too_short"))
      \o When(is_long(word_count), Fixed("too_long"))
      \o When(Len(extracted) = 0, Fixed("no_skills"))
      \o When(~(\E k \in DOMAIN suggest_bullet_chars :
                  Contains(<<suggest_bullet_chars[k]>>, text)),
              Fixed("no_bullets"))

\* mutant: the fallback appended without the emptiness test
generate_suggestions_always(text, extracted) ==
  LET missing == missing_of(extracted)
  IN  <<triggered(text, extracted, missing) \o <<Fixed("looks_good")>>, missing>>

\* (suggestions, missing_skills)
generate_suggestions(text, extracted) ==
  LET missing == missing_of(extracted)
      sugg    == triggered(text, extracted, missing)
  IN  <<IF sugg = <<>> THEN <<Fixed("looks_good")>> ELSE sugg, missing>>

\* ------------------------------------------------------------ the handler
\* extract_text_from_pdf: the text of the pages that have any, each followed
\* by a newline.  A page is [none, text]: page.extract_text() gave None or text.
RECURSIVE extract_text_from_pdf(_)
extract_text_from_pdf(pages) ==
  IF pages = <<>> THEN <<>>
  ELSE LET page == Head(pages)
           page_text_truthy == ~page.none /\ page.text # <<>>
       IN  (IF page_text_truthy THEN page.text \o <<"\n">> ELSE <<>>)
           \o extract_text_from_pdf(Tail(pages))

PDF_SUFFIX == <<".", "p", "d", "f">>

\* render_template("index.html", error=...) and render_template("result.html", ...)
IndexPage(error) == [template |-> "index.html", error |-> error, context |-> <<>>]

ResultPage(scores, skills, sugg) ==
  [template |-> "result.html", error |-> "",
   context |-> <<[score |-> scores[1], skill_score |-> scores[2],
                  project_score |-> scores[3], format_score |-> scores[4],
                  skills |-> skills, missing_skills |-> sugg[2],
                  suggestions |-> sugg[1]]>>]

\* ------------------------------------------------------------------ inputs
\* pieces of resume text; a text under test is a selection of them, in this
\* order, followed by filler words
Fragments == <<
  <<"P", "y", "t", "h", "o", "n", " ", "m", "a", "c", "h", "i", "n", "e", " ", "l", "e", "a", "r", "n", "i", "n", "g", " ">>, <<"h", "t">>, <<"m", "l", " ">>, <<"C", "S", "S", " ", "S", "Q", "L", " ">>, <<"J", "a", "v", "a", "S", "c", "r", "i", "p", "t", " ">>,
  <<"g", "i", "t">>, <<"h", "u", "b", " ">>, <<"b", "u", "i", "l", "t", " ">>, <<"-", " ">>, <<"E", "d", "u", "c", "a", "t", "i", "o", "n", " ", "S", "k", "i", "l", "l", "s", " ">>, <<"P", "r", "o", "j", "e", "c", "t", "s", " ">> >>

RECURSIVE HeaderFrom(_, _)
HeaderFrom(k, S) ==
  IF k > Len(Fragments) THEN <<>>
  ELSE (IF k \in S THEN Fragments[k] ELSE <<>>) \o HeaderFrom(k + 1, S)

Header(S) == HeaderFrom(1, S)

\* n filler words, every fifth one ended by a newline instead of a space
Filler(n) ==
  [i \in 1..(2 * n) |-> IF i % 2 = 1 THEN "x" ELSE IF i % 10 = 0 THEN "\n" ELSE " "]

\* the sample resume of the documentation
Sample ==
  <<"P", "y", "t", "h", "o", "n", ",", " ", "H", "T", "M", "L", ",", " ", "C", "S", "S", ",", " ", "J", "a", "v", "a", "S", "c", "r", "i", "p", "t", ",", " ", "S", "Q", "L", ",", " ", "G", "i", "t", ",", " ", "G", "i", "t", "H", "u", "b", ",", " ", "M", "a", "c", "h", "i", "n", "e", " ", "L", "e", "a", "r", "n", "i", "n", "g", ",", " ">>
  \o <<"P", "r", "o", "j", "e", "c", "t", "s", ":", " ", "b", "u", "i", "l", "t", " ", "a", " ", "w", "e", "b", " ", "a", "p", "p", " ", "u", "s", "i", "n", "g", " ", "R", "e", "a", "c", "t", ",", " ">> \o <<"BULLET">> \o <<" ", "b", "u", "l", "l", "e", "t", " ", "l", "i", "s", "t", ",", " ">>
  \o <<"E", "d", "u", "c", "a", "t", "i", "o", "n", " ", "E", "x", "p", "e", "r", "i", "e", "n", "c", "e", " ", "S", "k", "i", "l", "l", "s", " ", "P", "r", "o", "j", "e", "c", "t", "s", " ", "A", "c", "h", "i", "e", "v", "e", "m", "e", "n", "t", "s", " ">>

Spaces(t) == Cardinality({i \in 1..Len(t) : t[i] = " "})

\* texts of exactly, and within Slack of, each length threshold
BoundaryTexts ==
  {h \o Filler(limit + d - Spaces(h)) :
     h \in {<<>>, Sample}, limit \in {SHORT_LIMIT, LONG_LIMIT}, d \in (0 - Slack)..Slack}

\* selections within MaxEdits fragments of the empty or of the complete one
NearEnds ==
  {S \in SUBSET DOMAIN Fragments :
     Cardinality(S) <= MaxEdits \/ Cardinality(S) >= Len(Fragments) - MaxEdits}

\* every selection without filler (short texts), the selections of NearEnds
\* with SHORT_LIMIT filler words (texts of ordinary length), and the boundary texts
Texts ==
  {Header(S) : S \in SUBSET DOMAIN Fragments}
  \cup {Header(S) \o Filler(SHORT_LIMIT) : S \in NearEnds}
  \cup BoundaryTexts

NoPage == [none |-> TRUE, text |-> <<>>]

PageTexts ==
  {NoPage} \cup
  {[none |-> FALSE, text |-> t] :
     t \in {<<>>, <<" ">>, <<"P", "y", "t", "h", "o", "n", " ">>, <<"-", " ", "b", "u", "i", "l", "t", " ">>, Sample \o Filler(SHORT_LIMIT)}}

RECURSIVE SeqsUpTo(_, _)
SeqsUpTo(S, n) ==
  IF n = 0 THEN {<<>>}
  ELSE LET shorter == SeqsUpTo(S, n - 1)
       IN  shorter \cup {Append(q, x) : q \in shorter, x \in S}

FileNames == {<<>>, <<"c", "v", ".", "p", "d", "f">>, <<"C", "V", ".", "P", "D", "F">>, <<"c", "v", ".", "t", "x", "t">>, <<"p", "d", "f">>, <<"c", "v", ".", "p", "d", "f", ".", "t", "x", "t">>}

NoFile == [present |-> FALSE, filename |-> <<>>, pages |-> <<>>]

Files ==
  {NoFile} \cup
  {[present |-> TRUE, filename |-> f, pages |-> p] :
     f \in FileNames, p \in SeqsUpTo(PageTexts, MaxPages)}

Requests == {[method |-> m, file |-> f] : m \in {"GET", "POST"}, f \in Files}

NoRequest == [method |-> "", file |-> NoFile]
NoResponse == [template |-> "", error |-> "", context |-> <<>>]

\* ------------------------------------------------------------------- state
VARIABLES
  pc,               \* position of the evaluation of one text
  text,             \* the text under evaluation
  extracted_skills, \* result of extract_skills
  total_score, skill_score, project_score, format_score, \* calculate_score's tuple
  suggestions, missing_skills,                           \* generate_suggestions' pair
  calls,            \* the functions called so far, in order
  request, response \* the handler's request and what it rendered

core == <<text, extracted_skills, total_score, skill_score, project_score,
          format_score, suggestions, missing_skills>>
vars == <<pc, core, calls, request, response>>

Unset ==
  /\ extracted_skills = <<>>
  /\ total_score = 0 /\ skill_score = 0 /\ project_score = 0 /\ format_score = 0
  /\ suggestions = <<>> /\ missing_skills = <<>>
  /\ calls = <<>>
  /\ response = NoResponse

\* ------------------------------------------- the core, one call at a time
Init ==
  /\ pc = "start"
  /\ text \in Texts
  /\ request = NoRequest
  /\ Unset

ExtractSkills ==
  /\ pc = "start"
  /\ extracted_skills' = extract_skills(text)
  /\ calls' = Append(calls, "extract_skills")
  /\ pc' = "extracted"
  /\ UNCHANGED <<text, total_score, skill_score, project_score, format_score,
                 suggestions, missing_skills, request, response>>

CalculateScore ==
  /\ pc = "extracted"
  /\ LET r == calculate_score(extracted_skills, text)
     IN  /\ total_score' = r[1]
         /\ skill_score' = r[2]
         /\ project_score' = r[3]
         /\ format_score' = r[4]
  /\ calls' = Append(calls, "calculate_score")
  /\ pc' = "scored"
  /\ UNCHANGED <<text, extracted_skills, suggestions, missing_skills, request, response>>

GenerateSuggestions ==
  /\ pc = "scored"
  /\ LET r == generate_suggestions(text, extracted_skills)
     IN  /\ suggestions' = r[1]
         /\ missing_skills' = r[2]
  /\ calls' = Append(calls, "generate_suggestions")
  /\ pc' = "done"
  /\ UNCHANGED <<text, extracted_skills, total_score, skill_score, project_score,
                 format_score, request, response>>

Next == ExtractSkills \/ CalculateScore \/ GenerateSuggestions

Spec == Init /\ [][Next]_vars

\* --------------------------------------------------- the upload handler
\* one request, handled from arrival to the rendered response; requests share
\* no state, so each behaviour handles one
InitHome ==
  /\ pc = "received"
  /\ request \in Requests
  /\ text = <<>>
  /\ Unset

\* the early returns of home: the scoring locals were never bound
Reject(t, called, error) ==
  /\ text' = t
  /\ calls' = called
  /\ response' = IndexPage(error)
  /\ UNCHANGED <<extracted_skills, total_score, skill_score, project_score,
                 format_score, suggestions, missing_skills>>

home ==
  /\ pc = "received"
  /\ pc' = "responded"
  /\ UNCHANGED request
  /\ IF request.method = "POST"
     THEN LET file == request.file
          IN  IF ~file.present \/ file.filename = <<>>
              THEN Reject(<<>>, <<>>, "Please upload a PDF file.")
              ELSE IF ~EndsWith(lower(file.filename), PDF_SUFFIX)
              THEN Reject(<<>>, <<>>, "Only PDF files (.pdf) are supported right now.")
              ELSE LET t == extract_text_from_pdf(file.pages)
                   IN  IF strip(t) = <<>>
                       THEN Reject(t, <<"extract_text_from_pdf">>,
                                   "I couldn't read any text from this PDF.")
                       ELSE LET skills == extract_skills(t)
                                scores == calculate_score(skills, t)
                                sugg   == generate_suggestions(t, skills)
                            IN  /\ text' = t
                                /\ extracted_skills' = skills
                                /\ total_score' = scores[1]
                                /\ skill_score' = scores[2]
                                /\ project_score' = scores[3]
                                /\ format_score' = scores[4]
                                /\ suggestions' = sugg[1]
                                /\ missing_skills' = sugg[2]
                                /\ calls' = <<"extract_text_from_pdf", "extract_skills",
                                              "calculate_score", "generate_suggestions">>
                                /\ response' = ResultPage(scores, skills, sugg)
     ELSE Reject(<<>>, <<>>, "")

NextHome == home

SpecHome == InitHome /\ [][NextHome]_vars

\* ------------------------------------------------------------ properties
Kinds == {suggestions[i].kind : i \in DOMAIN suggestions}

Scored == pc \in {"scored", "done"}

\* position of a required skill in the required-skills vocabulary
Pos(s) == CHOOSE k \in DOMAIN REQUIRED_SKILLS : REQUIRED_SKILLS[k] = s

\* C1: once calculate_score has returned, total (in tenths) equals the returned
\* rounded skill score plus the project and format scores, which rounding to one
\* decimal leaves as it is, and total lies between 0 and 100.
C1_TotalIsRoundedSum ==
  Scored =>
    /\ total_score = skill_score + 10 * (project_score + format_score)
    /\ 0 <= total_score /\ total_score <= 1000

\* a score whose skill part was a rounding tie (an odd number of matches)
C1_Witness ==
  /\ pc = "scored"
  /\ skill_score % 10 \notin {0, 5}

\* C2: the missing-skills list returned by generate_suggestions holds exactly the
\* required skills that are not among the extracted skills, each once, in the
\* order of the required-skills vocabulary, whether or not it is empty (that is,
\* whether or not the missing-skills suggestion was appended).
C2_MissingIsRequiredMinusExtracted ==
  pc = "done" =>
    /\ Range(missing_skills) = Range(REQUIRED_SKILLS) \ Range(extracted_skills)
    /\ \A i, j \in DOMAIN missing_skills :
         i < j => Pos(missing_skills[i]) < Pos(missing_skills[j])
    /\ ("missing_skills" \in Kinds) = (missing_skills # <<>>)

\* some required skills are missing, others are not, and the list has an order
C2_Witness ==
  /\ pc = "done"
  /\ Len(missing_skills) >= 2
  /\ Len(missing_skills) < Len(REQUIRED_SKILLS)
  /\ Range(extracted_skills) \ Range(REQUIRED_SKILLS) # {}

\* the six conditions of generate_suggestions, read off the text and the skills
AnyTriggered ==
  \/ Range(REQUIRED_SKILLS) \ Range(extracted_skills) # {}
  \/ ~has_projects(text)
  \/ SplitLen(text) < 150
  \/ SplitLen(text) > 700
  \/ extracted_skills = <<>>
  \/ ~has_bullets(text)

\* C3: the fallback suggestion is present if and only if none of the six
\* conditions triggered; when present it is the only element; the list is
\* never empty.
C3_FallbackIffNothingTriggered ==
  pc = "done" =>
    /\ ("looks_good" \in Kinds) = ~AnyTriggered
    /\ "looks_good" \in Kinds => Len(suggestions) = 1
    /\ suggestions # <<>>

\* a text of more than 700 words with nothing else to improve: one suggestion,
\* and it is not the fallback
C3_Witness ==
  /\ pc = "done"
  /\ Kinds = {"too_long"}

Rank(kind) ==
  CASE kind = "missing_skills" -> 1
    [] kind = "no_projects" -> 2
    [] kind = "too_short" -> 3
    [] kind = "too_long" -> 4
    [] kind = "no_skills" -> 5
    [] kind = "no_bullets" -> 6
    [] kind = "looks_good" -> 7

\* C4: the suggestions are in the fixed priority order missing-skills,
\* no-projects, too-short, too-long, no-skills, no-bullets, fallback, and each
\* kind appears at most once: ranks strictly increase along the list.
C4_PriorityOrder ==
  pc = "done" =>
    \A i, j \in DOMAIN suggestions :
       i < j => Rank(suggestions[i].kind) < Rank(suggestions[j].kind)

\* a list with the no-skills and no-bullets suggestions both present, after others
C4_Witness ==
  /\ pc = "done"
  /\ {"no_projects", "no_skills", "no_bullets"} \subseteq Kinds
  /\ Len(suggestions) >= 4

\* C5: a text of exactly 150 words gets no too-short suggestion, a text of
\* exactly 700 words gets no too-long suggestion, and no text gets both.
C5_StrictLengthChecks ==
  pc = "done" =>
    /\ SplitLen(text) = 150 => "too_short" \notin Kinds
    /\ SplitLen(text) = 700 => "too_long" \notin Kinds
    /\ ~({"too_short", "too_long"} \subseteq Kinds)

\* texts of 149 and 151 words exist beside it, so 150 is the boundary reached
C5_Witness ==
  /\ pc = "done"
  /\ SplitLen(text) = 150

\* C6: the format score is 8 for a bullet character (else 0) plus 12, 8, 4 or 2
\* for three or more, two, one or no section names; so it is one of
\* 2, 4, 8, 10, 12, 16, 20, and the clamp at 20 changes nothing.
C6_FormatScoreSteps ==
  Scored =>
    LET n == section_score(text)
        base == IF has_bullets(text) THEN 8 ELSE 0
        bonus == IF n >= 3 THEN 12 ELSE IF n = 2 THEN 8 ELSE IF n = 1 THEN 4 ELSE 2
    IN  /\ format_score = base + bonus
        /\ format_score \in {2, 4, 8, 10, 12, 16, 20}
        /\ format_raw(text) = format_score

\* bullets and at least three sections: the largest sum, where a clamp would act
C6_Witness ==
  /\ pc = "scored"
  /\ has_bullets(text)
  /\ section_score(text) >= 3
  /\ format_score = 20

\* C7: for the empty text the core yields no skills, every required skill
\* missing, skill score 0, project score 10, format score 2, total 12.0, and the
\* missing-skills, no-projects, too-short, no-skills and no-bullets suggestions
\* without the fallback.
C7_EmptyText ==
  (pc = "done" /\ text = <<>>) =>
    /\ extracted_skills = <<>>
    /\ missing_skills = REQUIRED_SKILLS
    /\ skill_score = 0 /\ project_score = 10 /\ format_score = 2
    /\ total_score = 120
    /\ Kinds = {"missing_skills", "no_projects", "too_short", "no_skills", "no_bullets"}

C7_Witness ==
  /\ pc = "done"
  /\ text = <<>>
  /\ calls = <<"extract_skills", "calculate_score", "generate_suggestions">>

\* the text has every required skill, a project keyword, a bullet character, at
\* least three section names and between 150 and 700 words
Complete ==
  /\ Range(REQUIRED_SKILLS) \subseteq Range(extracted_skills)
  /\ has_projects(text)
  /\ has_bullets(text)
  /\ section_score(text) >= 3
  /\ SplitLen(text) >= 150 /\ SplitLen(text) <= 700

\* C8: for a complete text the skill score is 50, the project score 30, the
\* format score 20, the total 100.0, no skill is missing and the only
\* suggestion is the fallback.
C8_CompleteText ==
  (pc = "done" /\ Complete) =>
    /\ skill_score = 500 /\ project_score = 30 /\ format_score = 20
    /\ total_score = 1000
    /\ missing_skills = <<>>
    /\ Len(suggestions) = 1 /\ Kinds = {"looks_good"}

\* a complete text of exactly 700 words
C8_Witness ==
  /\ pc = "done"
  /\ Complete
  /\ SplitLen(text) = 700

\* C9: calculate_score and generate_suggestions agree on the signals: the
\* project score is 10 exactly when the no-projects suggestion is present and 30
\* otherwise, the format score lacks the bullet base exactly when the no-bullets
\* suggestion is present, and the skill score is 50 exactly when nothing is
\* missing.
C9_SignalsAgree ==
  pc = "done" =>
    /\ project_score \in {10, 30}
    /\ (project_score = 10) = ("no_projects" \in Kinds)
    /\ (format_score = section_bonus(section_score(text))) = ("no_bullets" \in Kinds)
    /\ (skill_score = 500) = (missing_skills = <<>>)

\* bullets found by both and a project found by neither
C9_Witness ==
  /\ pc = "done"
  /\ project_score = 10
  /\ format_score = 8 + section_bonus(section_score(text))
  /\ "no_bullets" \notin Kinds

\* the gates of home, read off the request
HasFile == request.file.present /\ request.file.filename # <<>>

IsPdfName ==
  LET f == request.file.filename
  IN  /\ Len(f) >= 4
      /\ LowerChar(f[Len(f) - 3]) = "." /\ LowerChar(f[Len(f) - 2]) = "p"
      /\ LowerChar(f[Len(f) - 1]) = "d" /\ LowerChar(f[Len(f)]) = "f"

HasText == \E i \in DOMAIN text : text[i] \notin Whitespace

CoreCalls == {"extract_skills", "calculate_score", "generate_suggestions"}

NothingComputed ==
  /\ Range(calls) \cap CoreCalls = {}
  /\ response.template = "index.html"
  /\ response.context = <<>>
  /\ extracted_skills = <<>> /\ suggestions = <<>> /\ missing_skills = <<>>
  /\ total_score = 0

\* C10: on a POST the core runs only when a named file was uploaded, its name
\* ends in .pdf whatever the case, and the extracted text has a character that
\* is not whitespace; the first gate that fails returns the upload page with
\* that gate's error and nothing is computed.
C10_GatesBeforeCore ==
  (pc = "responded" /\ request.method = "POST") =>
    /\ Range(calls) \cap CoreCalls # {} =>
         /\ HasFile /\ IsPdfName /\ HasText
         /\ calls = <<"extract_text_from_pdf", "extract_skills",
                      "calculate_score", "generate_suggestions">>
         /\ response.template = "result.html"
    /\ ~HasFile =>
         NothingComputed /\ response.error = "Please upload a PDF file."
    /\ (HasFile /\ ~IsPdfName) =>
         NothingComputed /\ response.error = "Only PDF files (.pdf) are supported right now."
    /\ (HasFile /\ IsPdfName /\ ~HasText) =>
         NothingComputed /\ response.error = "I couldn't read any text from this PDF."

\* a PDF whose text is whitespace only is turned away at the third gate
C10_Witness ==
  /\ pc = "responded"
  /\ request.method = "POST"
  /\ HasFile /\ IsPdfName
  /\ text # <<>> /\ ~HasText
  /\ response.error = "I couldn't read any text from this PDF."

====
